---- MODULE Spec2Model ----
(***************************************************************************)
(* Model of src/Aula1/main_A1.py: the conversational agent                 *)
(* MeuPrimeiroAgente (message history, tool registry, keyword tool         *)
(* dispatch, prompt assembly, the turn with its suspension at the backend  *)
(* call, and saving / loading the history).                                *)
(*                                                                         *)
(* Texts are TLA+ strings handled character by character, so lower(),      *)
(* "in", replace() and strip() are computed the way Python computes them.  *)
(***************************************************************************)
EXTENDS Integers, Sequences, FiniteSets, TLC

\* Bound: a turn starts only while the clock reads less than this, so it bounds
\* how many messages adicionar_mensagem creates in one run.
MaxRelogio == 3

----------------------------------------------------------------------------
(* Python str operations *)

Char(s, i) == SubSeq(s, i, i)

\* the lower-case letter of each ASCII capital (other characters are left alone;
\* no text of this model has a capital outside ASCII)
Minuscula ==
    [A |-> "a", B |-> "b", C |-> "c", D |-> "d", E |-> "e", F |-> "f", G |-> "g",
     H |-> "h", I |-> "i", J |-> "j", K |-> "k", L |-> "l", M |-> "m", N |-> "n",
     O |-> "o", P |-> "p", Q |-> "q", R |-> "r", S |-> "s", T |-> "t", U |-> "u",
     V |-> "v", W |-> "w", X |-> "x", Y |-> "y", Z |-> "z"]

LowerChar(c) == IF c \in DOMAIN Minuscula THEN Minuscula[c] ELSE c

RECURSIVE lower(_)
\* str.lower()
lower(s) == IF s = "" THEN "" ELSE LowerChar(Char(s, 1)) \o lower(SubSeq(s, 2, Len(s)))

\* Python's  sub in s
Contem(sub, s) ==
    \E i \in 1..(Len(s) - Len(sub) + 1) : SubSeq(s, i, i + Len(sub) - 1) = sub

RECURSIVE replace(_, _, _)
\* str.replace(old, new): leftmost non-overlapping occurrences, case-sensitive
replace(s, old, new) ==
    IF Len(s) < Len(old) THEN s
    ELSE IF SubSeq(s, 1, Len(old)) = old
         THEN new \o replace(SubSeq(s, Len(old) + 1, Len(s)), old, new)
         ELSE Char(s, 1) \o replace(SubSeq(s, 2, Len(s)), old, new)

Brancos == {" ", "\n", "\t"}

RECURSIVE lstrip(_)
lstrip(s) == IF s # "" /\ Char(s, 1) \in Brancos THEN lstrip(SubSeq(s, 2, Len(s))) ELSE s

RECURSIVE rstrip(_)
rstrip(s) ==
    IF s # "" /\ Char(s, Len(s)) \in Brancos THEN rstrip(SubSeq(s, 1, Len(s) - 1)) ELSE s

\* str.strip()
strip(s) == lstrip(rstrip(s))

Digitos == {"0", "1", "2", "3", "4", "5", "6", "7", "8", "9"}

IsDigito(c) == c \in Digitos

ValorDigito(c) ==
    CASE c = "0" -> 0 [] c = "1" -> 1 [] c = "2" -> 2 [] c = "3" -> 3 [] c = "4" -> 4
      [] c = "5" -> 5 [] c = "6" -> 6 [] c = "7" -> 7 [] c = "8" -> 8 [] c = "9" -> 9

RECURSIVE ParseNat(_)
\* int() of a non-empty string of digits
ParseNat(s) ==
    IF s = "" THEN 0
    ELSE 10 * ParseNat(SubSeq(s, 1, Len(s) - 1)) + ValorDigito(Char(s, Len(s)))

SoDigitos(s) == s # "" /\ \A i \in 1..Len(s) : IsDigito(Char(s, i))

RECURSIVE ZeroPad(_, _)
\* the zero-padded decimal fields of isoformat
ZeroPad(s, n) == IF Len(s) >= n THEN s ELSE ZeroPad("0" \o s, n)

----------------------------------------------------------------------------
(* Role *)

Role == {"SYSTEM", "USER", "ASSISTANT", "TOOL"}

\* Role.<member>.value
RoleValue(r) ==
    CASE r = "SYSTEM" -> "system"
      [] r = "USER" -> "user"
      [] r = "ASSISTANT" -> "assistant"
      [] r = "TOOL" -> "tool"

\* Role(token): the member whose value is the token; ValueError otherwise
RoleOk(v) == \E r \in Role : RoleValue(r) = v

RoleDe(v) == CHOOSE r \in Role : RoleValue(r) = v

----------------------------------------------------------------------------
(* datetime: the timestamp of a Mensagem, its isoformat() and fromisoformat() *)

\* datetime.now(), read from the clock; the clock advances half a second per
\* reading, so both whole-second and fractional timestamps occur
Agora(t) ==
    [data |-> "2024-01-01", hora |-> 0, min |-> 0, seg |-> t \div 2,
     micro |-> (t % 2) * 500000]

\* isoformat(timespec="seconds"): the fraction is never written
isoformat_sem_fracao(ts) ==
    ts.data \o "T" \o ZeroPad(ToString(ts.hora), 2) \o ":" \o ZeroPad(ToString(ts.min), 2)
        \o ":" \o ZeroPad(ToString(ts.seg), 2)

\* datetime.isoformat(): the fraction is written only when it is not zero
isoformat(ts) ==
    ts.data \o "T" \o ZeroPad(ToString(ts.hora), 2) \o ":" \o ZeroPad(ToString(ts.min), 2)
        \o ":" \o ZeroPad(ToString(ts.seg), 2)
        \o (IF ts.micro = 0 THEN "" ELSE "." \o ZeroPad(ToString(ts.micro), 6))

\* the strings datetime.fromisoformat() accepts: YYYY-MM-DD[*HH[:MM[:SS[.fff[fff]]]]]
\* (the length of each month is not modelled)
IsoOk(s) ==
    /\ Len(s) \in {10, 13, 16, 19, 23, 26}
    /\ SoDigitos(SubSeq(s, 1, 4)) /\ Char(s, 5) = "-"
    /\ SoDigitos(SubSeq(s, 6, 7)) /\ Char(s, 8) = "-"
    /\ SoDigitos(SubSeq(s, 9, 10))
    /\ ParseNat(SubSeq(s, 1, 4)) >= 1
    /\ ParseNat(SubSeq(s, 6, 7)) \in 1..12
    /\ ParseNat(SubSeq(s, 9, 10)) \in 1..31
    /\ Len(s) >= 13 => SoDigitos(SubSeq(s, 12, 13)) /\ ParseNat(SubSeq(s, 12, 13)) <= 23
    /\ Len(s) >= 16 =>
          /\ Char(s, 14) = ":"
          /\ SoDigitos(SubSeq(s, 15, 16))
          /\ ParseNat(SubSeq(s, 15, 16)) <= 59
    /\ Len(s) >= 19 =>
          /\ Char(s, 17) = ":"
          /\ SoDigitos(SubSeq(s, 18, 19))
          /\ ParseNat(SubSeq(s, 18, 19)) <= 59
    /\ Len(s) >= 23 => Char(s, 20) = "." /\ SoDigitos(SubSeq(s, 21, Len(s)))

\* datetime.fromisoformat(s) for an accepted string
fromisoformat(s) ==
    [data |-> SubSeq(s, 1, 10),
     hora |-> IF Len(s) >= 13 THEN ParseNat(SubSeq(s, 12, 13)) ELSE 0,
     min |-> IF Len(s) >= 16 THEN ParseNat(SubSeq(s, 15, 16)) ELSE 0,
     seg |-> IF Len(s) >= 19 THEN ParseNat(SubSeq(s, 18, 19)) ELSE 0,
     micro |-> IF Len(s) = 26 THEN ParseNat(SubSeq(s, 21, 26))
               ELSE IF Len(s) = 23 THEN 1000 * ParseNat(SubSeq(s, 21, 23))
               ELSE 0]

----------------------------------------------------------------------------
(* The example tools, and a tool that fails *)

\* ferramenta_buscar
ferramenta_buscar(termo) == "Resultados da busca por '" \o termo \o "'"

IsOperador(c) == c \in {"+", "-", "*", "/"}

\* [\d\.\s\(\)]
ClasseA(c) == IsDigito(c) \/ c \in {".", "(", ")"} \/ c \in Brancos

\* [\d\.\s\(\)\+\-\*\/]
ClasseB(c) == ClasseA(c) \/ IsOperador(c)

\* re.search of [\d\.\s\(\)]*[\+\-\*\/][\d\.\s\(\)\+\-\*\/]* : the leftmost match
\* ends its first class at the first operator of the string, starts as far to the
\* left of it as the first class reaches, and runs on greedily through the second
ExpressaoEncontrada(s) ==
    LET j == CHOOSE i \in 1..Len(s) :
                 IsOperador(Char(s, i)) /\ \A k \in 1..(i - 1) : ~IsOperador(Char(s, k))
        ini == CHOOSE i \in 1..j :
                 /\ \A k \in i..(j - 1) : ClasseA(Char(s, k))
                 /\ i > 1 => ~ClasseA(Char(s, i - 1))
        fim == CHOOSE f \in j..Len(s) :
                 /\ \A k \in (j + 1)..f : ClasseB(Char(s, k))
                 /\ f < Len(s) => ~ClasseB(Char(s, f + 1))
    IN  SubSeq(s, ini, fim)

\* re.search of (\d+): the leftmost maximal run of digits
NumeroEncontrado(s) ==
    LET ini == CHOOSE i \in 1..Len(s) :
                 IsDigito(Char(s, i)) /\ \A k \in 1..(i - 1) : ~IsDigito(Char(s, k))
        fim == CHOOSE f \in ini..Len(s) :
                 /\ \A k \in ini..f : IsDigito(Char(s, k))
                 /\ f < Len(s) => ~IsDigito(Char(s, f + 1))
    IN  SubSeq(s, ini, fim)

\* a decimal integer literal of Python: no leading zero unless it is all zeros
LiteralOk(s) ==
    /\ SoDigitos(s)
    /\ Char(s, 1) = "0" => \A i \in 1..Len(s) : Char(s, i) = "0"

RECURSIVE SomaOk(_)
\* the expressions eval() is modelled for: integer literals joined by "+"
SomaOk(e) ==
    LET Mais == {i \in 1..Len(e) : Char(e, i) = "+"}
    IN  IF Mais = {} THEN LiteralOk(e)
        ELSE LET p == CHOOSE i \in Mais : \A k \in Mais : i <= k
             IN  LiteralOk(SubSeq(e, 1, p - 1)) /\ SomaOk(SubSeq(e, p + 1, Len(e)))

RECURSIVE Soma(_)
Soma(e) ==
    LET Mais == {i \in 1..Len(e) : Char(e, i) = "+"}
    IN  IF Mais = {} THEN ParseNat(e)
        ELSE LET p == CHOOSE i \in Mais : \A k \in Mais : i <= k
             IN  ParseNat(SubSeq(e, 1, p - 1)) + Soma(SubSeq(e, p + 1, Len(e)))

\* ferramenta_calcular, its result as the text str() gives. It never raises: every
\* failure inside is caught and returned as a text. eval() is modelled for sums of
\* integer literals, which is what the messages of this model contain; any other
\* expression found is taken to the except branch.
ferramenta_calcular(expressao) ==
    IF \E i \in 1..Len(expressao) : IsOperador(Char(expressao, i))
    THEN LET e == strip(ExpressaoEncontrada(expressao))
         IN  IF SomaOk(e) THEN ToString(Soma(e)) ELSE "Erro no calculo"
    ELSE IF \E i \in 1..Len(expressao) : IsDigito(Char(expressao, i))
         THEN ToString(ParseNat(NumeroEncontrado(expressao))) \o ".0"
         ELSE "Erro: Nenhuma expressao matematica encontrada."

\* The tools a caller registers: the two example tools under the names the dispatch
\* looks up, and under each name a tool whose function raises Exception("falhou").
Ferramentas ==
    { [nome |-> "calcular", func |-> "ferramenta_calcular"],
      [nome |-> "buscar", func |-> "ferramenta_buscar"],
      [nome |-> "calcular", func |-> "func_falha"],
      [nome |-> "buscar", func |-> "func_falha"] }

\* Ferramenta.__call__(**kwargs): runs func on the argument; ok = FALSE when it raises
Invocar(f, arg) ==
    CASE f.func = "ferramenta_calcular" ->
             [ok |-> TRUE, val |-> ferramenta_calcular(arg), err |-> ""]
      [] f.func = "ferramenta_buscar" ->
             [ok |-> TRUE, val |-> ferramenta_buscar(arg), err |-> ""]
      [] f.func = "func_falha" -> [ok |-> FALSE, val |-> "", err |-> "falhou"]

----------------------------------------------------------------------------
(* The state *)

VARIABLES
    _historico,   \* self._historico: the list of Mensagem objects
    _ferramentas, \* self._ferramentas: tool name -> Ferramenta
    relogio,      \* the clock datetime.now() reads
    arquivo,      \* the file salvar_conversa writes: whether it exists, its JSON
                  \* value, and (de) the history it was written from
    snapshot,     \* the list a caller got from the historico property
    pendentes,    \* the frames of processar_mensagem suspended at the backend call
    ult,          \* what the caller observed of the last call: a turn, a load, a
                  \* registration, the constructor, a change to the list it holds
    chamadas      \* how many processar_mensagem calls were started, have returned
                  \* a text, and have raised

vars == <<_historico, _ferramentas, relogio, arquivo, snapshot, pendentes, ult, chamadas>>

\* The texts the source writes with accented letters (the greeting, the tool
\* contexts, the calculator's error texts) are written here without the accents, as
\* in "Voce e Bot": TLC keeps one byte of each character of a
\* string when it moves a state to disk, so a text built from such a string would
\* differ from the same text built from a literal.  No operation of the agent
\* looks at these letters.

\* The agent's name (main passes its own; the greeting only embeds it)
Nome == "Bot"

\* What a caller says in a turn: a text with no trigger word in it (main's
\* "Calcule ..." has none either), a capitalised search request, and a text with both
\* trigger words
Mensagens ==
    { "calcule 10+2+5",
      "Pesquisar gatos",
      "pesquisar e calcular 1+2" }

\* What the backend does with a prompt: it returns a text, or it raises
RespostasBackend ==
    { [ok |-> TRUE, texto |-> "Resposta.", erro |-> ""],
      [ok |-> FALSE, texto |-> "", erro |-> "timeout"] }

\* The file salvar_conversa writes and carregar_conversa reads back
ArquivoDaConversa == "minha_conversa.json"

\* Other files a caller may load, with the JSON value each holds
ArquivoExterno(nome) ==
    CASE nome = "vazio.json" -> << >>
      [] nome = "narrador.json" ->
             << [role |-> "user", content |-> "a", timestamp |-> "2024-01-01T00:00:07"],
                [role |-> "narrator", content |-> "b",
                 timestamp |-> "2024-01-01T00:00:08"] >>
      [] nome = "ontem.json" ->
             << [role |-> "user", content |-> "c", timestamp |-> "ontem"] >>

Arquivos == {ArquivoDaConversa, "vazio.json", "narrador.json", "ontem.json"}

\* open(nome, "r") and json.load
LerArquivo(nome) ==
    IF nome = ArquivoDaConversa THEN arquivo
    ELSE [existe |-> TRUE, dados |-> ArquivoExterno(nome), de |-> << >>]

\* Mensagem(role, content, timestamp)
Mensagem(role, content, timestamp) ==
    [role |-> role, content |-> content, timestamp |-> timestamp]

(***************************************************************************)
(* The caller's list.  Its items are Mensagem objects: item i is the very   *)
(* object at position elo of the agent's list (elo > 0), or an object the   *)
(* agent no longer holds, with the value msg (elo = 0).  alias says that    *)
(* the caller's list is the agent's own list object, not a copy.  visto is  *)
(* what the caller read from the list when it got it.                       *)
(***************************************************************************)
ItensDoSnapshot ==
    IF snapshot.alias THEN _historico
    ELSE [i \in 1..Len(snapshot.itens) |->
             IF snapshot.itens[i].elo > 0 THEN _historico[snapshot.itens[i].elo]
             ELSE snapshot.itens[i].msg]

\* the caller's list once the agent has bound self._historico to a new list of new
\* objects: it keeps the old objects, and none of them is in the agent's list
Desligado ==
    [snapshot EXCEPT
        !.alias = FALSE,
        !.itens = [i \in 1..Len(ItensDoSnapshot) |->
                      [elo |-> 0, msg |-> ItensDoSnapshot[i]]]]

\* ult of a call that is not observed.  Of an observed call ult keeps: the method;
\* whether it returned or raised, and what; the history (antes) and, for a
\* registration, the registry (registro) before it; its argument; and what a turn did
SemObservacao ==
    [op |-> "-", res |-> "ok", val |-> "", antes |-> << >>, arg |-> "",
     usar |-> FALSE, usadas |-> << >>, contexto |-> "", prompt |-> "",
     backend |-> "nao", registro |-> << >>]

\* ult at the start of a call: the history the caller saw before it
Observacao(op) == [SemObservacao EXCEPT !.op = op, !.antes = _historico]

\* After MeuPrimeiroAgente(Nome): an empty registry and the system message
Init ==
    /\ _historico =
           << Mensagem("SYSTEM",
                       "Voce e " \o Nome \o ", um assistente de IA util e amigavel.",
                       Agora(0)) >>
    /\ _ferramentas = << >>
    /\ relogio = 1
    /\ arquivo = [existe |-> FALSE, dados |-> << >>, de |-> << >>]
    /\ snapshot = [tem |-> FALSE, alias |-> FALSE, itens |-> << >>, visto |-> << >>]
    /\ pendentes = {}
    /\ ult = SemObservacao
    /\ chamadas = [iniciadas |-> 0, retornadas |-> 0, levantadas |-> 0]

\* Temperatures a caller passes, in tenths: -0.1, 0.0, 0.5 (the default), 1.0, 1.1
Temperaturas == {-1, 0, 5, 10, 11}

\* Before MeuPrimeiroAgente(...) is evaluated: there is no agent, so no history, no
\* registry, and the clock has not been read
InitAntes ==
    /\ _historico = << >>
    /\ _ferramentas = << >>
    /\ relogio = 0
    /\ arquivo = [existe |-> FALSE, dados |-> << >>, de |-> << >>]
    /\ snapshot = [tem |-> FALSE, alias |-> FALSE, itens |-> << >>, visto |-> << >>]
    /\ pendentes = {}
    /\ ult = SemObservacao
    /\ chamadas = [iniciadas |-> 0, retornadas |-> 0, levantadas |-> 0]

\* the constructor has returned an agent
Existe == relogio >= 1

----------------------------------------------------------------------------
(* The operations *)

\* insert(0, msg) in place of append(msg)
adicionar_mensagem_no_inicio(role, content) ==
    /\ _historico' = << Mensagem(role, content, Agora(relogio)) >> \o _historico
    /\ relogio' = relogio + 1

\* adicionar_mensagem over a sliding window: once the list holds three messages, the
\* oldest one after the system message is dropped to make room
adicionar_mensagem_janela(role, content) ==
    /\ _historico' =
           Append(IF Len(_historico) >= 3
                  THEN << _historico[1] >> \o SubSeq(_historico, 3, Len(_historico))
                  ELSE _historico,
                  Mensagem(role, content, Agora(relogio)))
    /\ relogio' = relogio + 1

\* adicionar_mensagem: a new Mensagem stamped now, appended to the list in place
adicionar_mensagem(role, content) ==
    /\ _historico' = Append(_historico, Mensagem(role, content, Agora(relogio)))
    /\ relogio' = relogio + 1

\* _validar_temperatura with the endpoints excluded: 0 < valor < 1
_validar_temperatura_estrita(valor) ==
    [raise |-> ~(0 < valor /\ valor < 10), valor |-> valor]

\* _validar_temperatura: ValueError if not 0 <= valor <= 1, else the value (tenths)
_validar_temperatura(valor) ==
    [raise |-> ~(0 <= valor /\ valor <= 10), valor |-> valor]

\* MeuPrimeiroAgente(nome, temperatura=...): the temperature is validated before the
\* history and the registry exist; if it is valid they are created empty and the
\* system message is appended; if not, ValueError leaves __init__ and the caller
\* gets no agent
__init__(nome, temperatura) ==
    /\ ~Existe
    /\ LET v == _validar_temperatura(temperatura)
           obs == [SemObservacao EXCEPT !.op = "__init__", !.arg = ToString(temperatura)]
       IN  IF v.raise
           THEN /\ ult' = [obs EXCEPT !.res = "raise", !.val = "ValueError"]
                /\ UNCHANGED <<_historico, _ferramentas, relogio>>
           ELSE /\ _historico = << >>
                /\ adicionar_mensagem(
                       "SYSTEM", "Voce e " \o nome \o ", um assistente de IA util e amigavel.")
                /\ _ferramentas' = << >>
                /\ ult' = obs
    /\ UNCHANGED <<arquivo, snapshot, pendentes, chamadas>>

\* return self._historico, without .copy()
historico_sem_copia ==
    [tem |-> TRUE, alias |-> TRUE,
     itens |-> [i \in 1..Len(_historico) |-> [elo |-> i, msg |-> _historico[i]]],
     visto |-> _historico]

\* the historico property: a copy of the list, holding the same Mensagem objects
historico ==
    [tem |-> TRUE, alias |-> FALSE,
     itens |-> [i \in 1..Len(_historico) |-> [elo |-> i, msg |-> _historico[i]]],
     visto |-> _historico]

\* a caller reads the property and keeps what it returns
LerHistorico ==
    /\ snapshot' = historico
    /\ ult' = SemObservacao
    /\ UNCHANGED <<_historico, _ferramentas, relogio, arquivo, pendentes, chamadas>>

(***************************************************************************)
(* What a caller can do with the list the historico property returned: the  *)
(* list is the caller's own, its items are the agent's Mensagem objects,    *)
(* and Mensagem is a dataclass whose fields can be assigned.                *)
(***************************************************************************)
\* lista.append(lista[0]): the caller's list grows by an object it already holds
ChamadorAcrescenta ==
    /\ snapshot.tem /\ ~snapshot.alias
    /\ Len(snapshot.itens) >= 1
    /\ Len(snapshot.itens) <= Len(_historico)
    /\ snapshot' = [snapshot EXCEPT !.itens = Append(@, @[1])]
    /\ ult' = Observacao("chamador")
    /\ UNCHANGED <<_historico, _ferramentas, relogio, arquivo, pendentes, chamadas>>

\* lista.pop(): the caller's list loses its last item
ChamadorRemove ==
    /\ snapshot.tem /\ ~snapshot.alias
    /\ Len(snapshot.itens) >= 1
    /\ snapshot' = [snapshot EXCEPT !.itens = SubSeq(@, 1, Len(@) - 1)]
    /\ ult' = Observacao("chamador")
    /\ UNCHANGED <<_historico, _ferramentas, relogio, arquivo, pendentes, chamadas>>

\* lista[i - 1].content = valor: the field of the object is assigned; the object is
\* the one at position elo of the agent's list, if the agent still holds it
ChamadorAlteraContent(i, valor) ==
    /\ snapshot.tem /\ ~snapshot.alias
    /\ i \in 1..Len(snapshot.itens)
    /\ LET e == snapshot.itens[i].elo
       IN  IF e > 0
           THEN /\ _historico' = [_historico EXCEPT ![e].content = valor]
                /\ UNCHANGED snapshot
           ELSE /\ snapshot' = [snapshot EXCEPT !.itens[i].msg.content = valor]
                /\ UNCHANGED _historico
    /\ ult' = Observacao("chamador")
    /\ UNCHANGED <<_ferramentas, relogio, arquivo, pendentes, chamadas>>

\* lista[i - 1].role = valor
ChamadorAlteraRole(i, valor) ==
    /\ snapshot.tem /\ ~snapshot.alias
    /\ i \in 1..Len(snapshot.itens)
    /\ LET e == snapshot.itens[i].elo
       IN  IF e > 0
           THEN /\ _historico' = [_historico EXCEPT ![e].role = valor]
                /\ UNCHANGED snapshot
           ELSE /\ snapshot' = [snapshot EXCEPT !.itens[i].msg.role = valor]
                /\ UNCHANGED _historico
    /\ ult' = Observacao("chamador")
    /\ UNCHANGED <<_ferramentas, relogio, arquivo, pendentes, chamadas>>

\* registration with setdefault: a name that is bound keeps its tool
registrar_ferramenta_primeiro_vence(ferramenta) ==
    /\ _ferramentas' =
           [n \in (DOMAIN _ferramentas) \cup {ferramenta.nome} |->
               IF n \in DOMAIN _ferramentas THEN _ferramentas[n] ELSE ferramenta]
    /\ ult' = [Observacao("registrar_ferramenta") EXCEPT
                 !.arg = ferramenta.nome, !.val = ferramenta.func,
                 !.registro = _ferramentas]
    /\ UNCHANGED <<_historico, relogio, arquivo, snapshot, pendentes, chamadas>>

\* registrar_ferramenta: the name is bound to the tool, whatever it was bound to
registrar_ferramenta(ferramenta) ==
    /\ _ferramentas' =
           [n \in (DOMAIN _ferramentas) \cup {ferramenta.nome} |->
               IF n = ferramenta.nome THEN ferramenta ELSE _ferramentas[n]]
    /\ ult' = [Observacao("registrar_ferramenta") EXCEPT
                 !.arg = ferramenta.nome, !.val = ferramenta.func,
                 !.registro = _ferramentas]
    /\ UNCHANGED <<_historico, relogio, arquivo, snapshot, pendentes, chamadas>>

\* what the tool logic of a turn leaves: the context text for the prompt, the tools
\* it called (what Ferramenta.__call__ logs), and whether an exception left the method
SemFerramenta == [raise |-> FALSE, erro |-> "", contexto |-> "", usadas |-> << >>]

\* the "calcular" branch without its try / except
RamoCalcular_sem_except(mensagem, ferramentas) ==
    IF "calcular" \in DOMAIN ferramentas
    THEN LET f == ferramentas["calcular"]
             r == Invocar(f, mensagem)
             uso == << [nome |-> f.nome, func |-> f.func, arg |-> mensagem] >>
         IN  IF r.ok
             THEN [SemFerramenta EXCEPT
                     !.usadas = uso,
                     !.contexto =
                         "\n[SISTEMA] O usuario pediu um calculo. Resultado da ferramenta: "
                             \o r.val \o ". Use isso para responder."]
             ELSE [SemFerramenta EXCEPT !.usadas = uso, !.raise = TRUE, !.erro = r.err]
    ELSE SemFerramenta

\* processar_mensagem, the "calcular" branch: the tool gets the whole message; its
\* exception is caught and becomes the context
RamoCalcular(mensagem, ferramentas) ==
    IF "calcular" \in DOMAIN ferramentas
    THEN LET f == ferramentas["calcular"]
             r == Invocar(f, mensagem)
             uso == << [nome |-> f.nome, func |-> f.func, arg |-> mensagem] >>
         IN  IF r.ok
             THEN [SemFerramenta EXCEPT
                     !.usadas = uso,
                     !.contexto =
                         "\n[SISTEMA] O usuario pediu um calculo. Resultado da ferramenta: "
                             \o r.val \o ". Use isso para responder."]
             ELSE [SemFerramenta EXCEPT
                     !.usadas = uso,
                     !.contexto = "\n[SISTEMA] Erro ao calcular: " \o r.err]
    ELSE SemFerramenta

\* the "pesquisar" branch with a try / except like the other branch's
RamoPesquisar_com_except(mensagem, ferramentas) ==
    IF "buscar" \in DOMAIN ferramentas
    THEN LET f == ferramentas["buscar"]
             termos == strip(replace(mensagem, "pesquisar", ""))
             r == Invocar(f, termos)
             uso == << [nome |-> f.nome, func |-> f.func, arg |-> termos] >>
         IN  IF r.ok
             THEN [SemFerramenta EXCEPT
                     !.usadas = uso,
                     !.contexto = "\n[SISTEMA] Resultado da busca: " \o r.val
                                      \o ". Use isso para responder."]
             ELSE [SemFerramenta EXCEPT
                     !.usadas = uso,
                     !.contexto = "\n[SISTEMA] Erro ao buscar: " \o r.err]
    ELSE SemFerramenta

\* the "pesquisar" branch without its registry test: self._ferramentas["buscar"]
\* raises KeyError when no tool has that name
RamoPesquisar_sem_teste(mensagem, ferramentas) ==
    IF "buscar" \in DOMAIN ferramentas
    THEN LET f == ferramentas["buscar"]
             termos == strip(replace(mensagem, "pesquisar", ""))
             r == Invocar(f, termos)
             uso == << [nome |-> f.nome, func |-> f.func, arg |-> termos] >>
         IN  IF r.ok
             THEN [SemFerramenta EXCEPT
                     !.usadas = uso,
                     !.contexto = "\n[SISTEMA] Resultado da busca: " \o r.val
                                      \o ". Use isso para responder."]
             ELSE [SemFerramenta EXCEPT !.usadas = uso, !.raise = TRUE, !.erro = r.err]
    ELSE [SemFerramenta EXCEPT !.raise = TRUE, !.erro = "KeyError"]

\* processar_mensagem, the "pesquisar" branch: the tool gets the message without the
\* word "pesquisar", stripped; its exception is not caught
RamoPesquisar(mensagem, ferramentas) ==
    IF "buscar" \in DOMAIN ferramentas
    THEN LET f == ferramentas["buscar"]
             termos == strip(replace(mensagem, "pesquisar", ""))
             r == Invocar(f, termos)
             uso == << [nome |-> f.nome, func |-> f.func, arg |-> termos] >>
         IN  IF r.ok
             THEN [SemFerramenta EXCEPT
                     !.usadas = uso,
                     !.contexto = "\n[SISTEMA] Resultado da busca: " \o r.val
                                      \o ". Use isso para responder."]
             ELSE [SemFerramenta EXCEPT !.usadas = uso, !.raise = TRUE, !.erro = r.err]
    ELSE SemFerramenta

\* the tool logic with a second "if" in place of the "elif": both branches may run,
\* and the second one's context replaces the first one's
SelecionarFerramenta_dois_ifs(mensagem, usar_ferramentas, ferramentas) ==
    LET c == IF Contem("calcular", lower(mensagem))
             THEN RamoCalcular(mensagem, ferramentas) ELSE SemFerramenta
        b == IF Contem("pesquisar", lower(mensagem))
             THEN RamoPesquisar(mensagem, ferramentas) ELSE SemFerramenta
    IN  IF ~usar_ferramentas THEN SemFerramenta
        ELSE [raise |-> b.raise, erro |-> b.erro,
              contexto |-> IF b.contexto # "" THEN b.contexto ELSE c.contexto,
              usadas |-> c.usadas \o b.usadas]

\* processar_mensagem, the tool logic: if / elif on the lower-cased message, each
\* with the registry test nested inside it
SelecionarFerramenta(mensagem, usar_ferramentas, ferramentas) ==
    IF ~usar_ferramentas THEN SemFerramenta
    ELSE IF Contem("calcular", lower(mensagem)) THEN RamoCalcular(mensagem, ferramentas)
    ELSE IF Contem("pesquisar", lower(mensagem)) THEN RamoPesquisar(mensagem, ferramentas)
    ELSE SemFerramenta

RECURSIVE LinhasDoHistorico(_)
\* one "<role>: <content>\n" line for each message, in list order
LinhasDoHistorico(msgs) ==
    IF msgs = << >> THEN ""
    ELSE RoleValue(Head(msgs).role) \o ": " \o Head(msgs).content \o "\n"
             \o LinhasDoHistorico(Tail(msgs))

\* the prompt with the history lines in reverse order
MontarPrompt_invertido(msgs, contexto_ferramenta) ==
    LinhasDoHistorico([i \in 1..Len(msgs) |-> msgs[Len(msgs) + 1 - i]])
        \o contexto_ferramenta \o "\nassistant:"

\* processar_mensagem, the prompt: the history, the tool context, the cue
MontarPrompt(msgs, contexto_ferramenta) ==
    LinhasDoHistorico(msgs) \o contexto_ferramenta \o "\nassistant:"

\* a turn that takes its user message back when a tool's exception leaves it
IniciarTurno_desfaz(mensagem, usar_ferramentas) ==
    /\ relogio < MaxRelogio
    /\ LET sel == SelecionarFerramenta(mensagem, usar_ferramentas, _ferramentas)
           obs == [Observacao("processar_mensagem") EXCEPT
                     !.arg = mensagem, !.usar = usar_ferramentas,
                     !.usadas = sel.usadas, !.contexto = sel.contexto]
       IN  IF sel.raise
           THEN /\ _historico' = _historico
                /\ relogio' = relogio + 1
                /\ pendentes' = pendentes
                /\ ult' = [obs EXCEPT !.res = "raise", !.val = sel.erro]
                /\ chamadas' = [chamadas EXCEPT !.iniciadas = @ + 1,
                                                !.levantadas = @ + 1]
           ELSE LET prompt_completo ==
                        MontarPrompt(Append(_historico,
                                            Mensagem("USER", mensagem, Agora(relogio))),
                                     sel.contexto)
                IN  /\ adicionar_mensagem("USER", mensagem)
                    /\ pendentes' = pendentes \cup
                           { [mensagem |-> mensagem, usar |-> usar_ferramentas,
                              usadas |-> sel.usadas, contexto |-> sel.contexto,
                              prompt |-> prompt_completo, antes |-> obs.antes] }
                    /\ ult' = [obs EXCEPT !.res = "await", !.prompt = prompt_completo,
                                          !.backend = "chamado"]
                    /\ chamadas' = [chamadas EXCEPT !.iniciadas = @ + 1]
    /\ UNCHANGED <<_ferramentas, arquivo, snapshot>>

\* processar_mensagem up to the await: the user message is appended, the tool logic
\* runs, and either a tool's exception leaves the method or the prompt is built and
\* the call is suspended at generate_content_async
IniciarTurno(mensagem, usar_ferramentas) ==
    /\ relogio < MaxRelogio
    /\ adicionar_mensagem("USER", mensagem)
    /\ LET sel == SelecionarFerramenta(mensagem, usar_ferramentas, _ferramentas)
           obs == [Observacao("processar_mensagem") EXCEPT
                     !.arg = mensagem, !.usar = usar_ferramentas,
                     !.usadas = sel.usadas, !.contexto = sel.contexto]
       IN  IF sel.raise
           THEN /\ pendentes' = pendentes
                /\ ult' = [obs EXCEPT !.res = "raise", !.val = sel.erro]
                /\ chamadas' = [chamadas EXCEPT !.iniciadas = @ + 1,
                                                !.levantadas = @ + 1]
           ELSE LET prompt_completo == MontarPrompt(_historico', sel.contexto)
                IN  /\ pendentes' = pendentes \cup
                           { [mensagem |-> mensagem, usar |-> usar_ferramentas,
                              usadas |-> sel.usadas, contexto |-> sel.contexto,
                              prompt |-> prompt_completo, antes |-> obs.antes] }
                    /\ ult' = [obs EXCEPT !.res = "await", !.prompt = prompt_completo,
                                          !.backend = "chamado"]
                    /\ chamadas' = [chamadas EXCEPT !.iniciadas = @ + 1]
    /\ UNCHANGED <<_ferramentas, arquivo, snapshot>>

\* the backend call without its try / except
Gerar_sem_except(r) ==
    IF r.ok THEN [raise |-> FALSE, texto |-> r.texto, erro |-> ""]
    ELSE [raise |-> TRUE, texto |-> "", erro |-> r.erro]

\* processar_mensagem, the try around the backend call: the text the backend
\* returned, or, its exception caught, the error text; no exception leaves the try
Gerar(r) ==
    IF r.ok THEN [raise |-> FALSE, texto |-> r.texto, erro |-> ""]
    ELSE [raise |-> FALSE, texto |-> "Erro ao contatar a IA: " \o r.erro, erro |-> ""]

\* a resumed call that appends to the list as it was when the call was suspended
\* and binds self._historico to the result: what other calls appended since is lost
ConcluirTurno_sobre_copia(q, r) ==
    LET g == Gerar(r)
        obs == [op |-> "processar_mensagem", res |-> "ok", val |-> g.texto,
                antes |-> q.antes, arg |-> q.mensagem, usar |-> q.usar,
                usadas |-> q.usadas, contexto |-> q.contexto, prompt |-> q.prompt,
                backend |-> IF r.ok THEN "ok" ELSE "falha", registro |-> << >>]
    IN  /\ q \in pendentes
        /\ pendentes' = pendentes \ {q}
        /\ _historico' = Append(SubSeq(_historico, 1, Len(q.antes) + 1),
                                Mensagem("ASSISTANT", g.texto, Agora(relogio)))
        /\ relogio' = relogio + 1
        /\ ult' = obs
        /\ chamadas' = [chamadas EXCEPT !.retornadas = @ + 1]
        /\ UNCHANGED <<_ferramentas, arquivo, snapshot>>

\* processar_mensagem from the await on: the backend answered or raised; the
\* assistant message is appended and its text returned
ConcluirTurno(q, r) ==
    LET g == Gerar(r)
        obs == [op |-> "processar_mensagem", res |-> "ok", val |-> g.texto,
                antes |-> q.antes, arg |-> q.mensagem, usar |-> q.usar,
                usadas |-> q.usadas, contexto |-> q.contexto, prompt |-> q.prompt,
                backend |-> IF r.ok THEN "ok" ELSE "falha", registro |-> << >>]
    IN  /\ q \in pendentes
        /\ pendentes' = pendentes \ {q}
        /\ IF g.raise
           THEN /\ ult' = [obs EXCEPT !.res = "raise", !.val = g.erro]
                /\ chamadas' = [chamadas EXCEPT !.levantadas = @ + 1]
                /\ UNCHANGED <<_historico, relogio>>
           ELSE /\ adicionar_mensagem("ASSISTANT", g.texto)
                /\ ult' = obs
                /\ chamadas' = [chamadas EXCEPT !.retornadas = @ + 1]
        /\ UNCHANGED <<_ferramentas, arquivo, snapshot>>

\* salvar_conversa, the records: one {role, content, timestamp} per message
Exportar(msgs) ==
    [i \in 1..Len(msgs) |->
        [role |-> RoleValue(msgs[i].role), content |-> msgs[i].content,
         timestamp |-> isoformat(msgs[i].timestamp)]]

\* salvar_conversa: the records are written to the file as JSON
salvar_conversa ==
    /\ arquivo' = [existe |-> TRUE, dados |-> Exportar(_historico), de |-> _historico]
    /\ ult' = SemObservacao
    /\ UNCHANGED <<_historico, _ferramentas, relogio, snapshot, pendentes, chamadas>>

\* a record carregar_conversa can turn into a Mensagem: Role(item["role"]) and
\* datetime.fromisoformat(item["timestamp"]) both succeed
RegistroOk(item) == RoleOk(item.role) /\ IsoOk(item.timestamp)

\* carregar_conversa, the loop: how many records are appended before it ends, which
\* is all of them or those before the first one that raises
Carregados(dados) ==
    IF \A i \in 1..Len(dados) : RegistroOk(dados[i]) THEN Len(dados)
    ELSE (CHOOSE i \in 1..Len(dados) :
              ~RegistroOk(dados[i]) /\ \A k \in 1..(i - 1) : RegistroOk(dados[k])) - 1

\* carregar_conversa: open() raises if there is no file, before anything changes;
\* otherwise self._historico is bound to a new empty list and the records are
\* appended to it one by one, until the end or the first record that raises
carregar_conversa(nome) ==
    IF ~LerArquivo(nome).existe
    THEN /\ ult' = [Observacao("carregar_conversa") EXCEPT
                      !.arg = nome, !.res = "raise", !.val = "FileNotFoundError"]
         /\ UNCHANGED <<_historico, _ferramentas, relogio, arquivo, snapshot, pendentes, chamadas>>
    ELSE LET dados == LerArquivo(nome).dados
             n == Carregados(dados)
         IN  /\ _historico' =
                    [i \in 1..n |->
                        Mensagem(RoleDe(dados[i].role), dados[i].content,
                                 fromisoformat(dados[i].timestamp))]
             /\ snapshot' = Desligado
             /\ ult' = IF n = Len(dados)
                       THEN [Observacao("carregar_conversa") EXCEPT !.arg = nome]
                       ELSE [Observacao("carregar_conversa") EXCEPT
                               !.arg = nome, !.res = "raise", !.val = "ValueError"]
             /\ UNCHANGED <<_ferramentas, relogio, arquivo, pendentes, chamadas>>

----------------------------------------------------------------------------
(* Sequential use: no call starts while a turn is suspended at the backend *)

Ocioso == pendentes = {}

Next ==
    \/ Ocioso /\ \E m \in Mensagens, u \in BOOLEAN : IniciarTurno(m, u)
    \/ \E q \in pendentes, r \in RespostasBackend : ConcluirTurno(q, r)
    \/ Ocioso /\ \E f \in Ferramentas : registrar_ferramenta(f)
    \/ Ocioso /\ LerHistorico
    \/ Ocioso /\ salvar_conversa
    \/ Ocioso /\ \E a \in Arquivos : carregar_conversa(a)
    \/ Ocioso /\ ChamadorAcrescenta
    \/ Ocioso /\ ChamadorRemove
    \/ Ocioso /\ \E i \in 1..Len(snapshot.itens) : ChamadorAlteraContent(i, "x")
    \/ Ocioso /\ \E i \in 1..Len(snapshot.itens) : ChamadorAlteraRole(i, "TOOL")

Spec == Init /\ [][Next]_vars

\* The conversation alone: turns, tool registration, reading the history
NextTurnos ==
    \/ Ocioso /\ \E m \in Mensagens, u \in BOOLEAN : IniciarTurno(m, u)
    \/ \E q \in pendentes, r \in RespostasBackend : ConcluirTurno(q, r)
    \/ Ocioso /\ \E f \in Ferramentas : registrar_ferramenta(f)
    \/ Ocioso /\ LerHistorico

SpecTurnos == Init /\ [][NextTurnos]_vars

\* Persistence: turns of an agent with no tools, saving, loading, reading the history
NextArquivo ==
    \/ Ocioso /\ \E m \in Mensagens, u \in BOOLEAN : IniciarTurno(m, u)
    \/ \E q \in pendentes, r \in RespostasBackend : ConcluirTurno(q, r)
    \/ Ocioso /\ LerHistorico
    \/ Ocioso /\ salvar_conversa
    \/ Ocioso /\ \E a \in Arquivos : carregar_conversa(a)

SpecArquivo == Init /\ [][NextArquivo]_vars

\* Construction, then the conversation: no method is called before there is an agent
NextConstrucao ==
    \/ \E t \in Temperaturas : __init__(Nome, t)
    \/ Existe /\ Ocioso /\ \E m \in Mensagens, u \in BOOLEAN : IniciarTurno(m, u)
    \/ \E q \in pendentes, r \in RespostasBackend : ConcluirTurno(q, r)
    \/ Existe /\ Ocioso /\ \E f \in Ferramentas : registrar_ferramenta(f)
    \/ Existe /\ Ocioso /\ LerHistorico

SpecConstrucao == InitAntes /\ [][NextConstrucao]_vars

\* A caller that keeps the list it read and changes it, between the turns of an
\* agent with no tools
NextChamador ==
    \/ Ocioso /\ \E m \in Mensagens, u \in BOOLEAN : IniciarTurno(m, u)
    \/ \E q \in pendentes, r \in RespostasBackend : ConcluirTurno(q, r)
    \/ Ocioso /\ LerHistorico
    \/ Ocioso /\ ChamadorAcrescenta
    \/ Ocioso /\ ChamadorRemove
    \/ Ocioso /\ \E i \in 1..Len(snapshot.itens) : ChamadorAlteraContent(i, "x")
    \/ Ocioso /\ \E i \in 1..Len(snapshot.itens) : ChamadorAlteraRole(i, "TOOL")

SpecChamador == Init /\ [][NextChamador]_vars

\* Overlapping use: a call starts, or a tool is registered, while earlier calls are
\* suspended at the backend, and the suspended calls resume in any order
NextSobrepostos ==
    \/ \E m \in Mensagens, u \in BOOLEAN : IniciarTurno(m, u)
    \/ \E q \in pendentes, r \in RespostasBackend : ConcluirTurno(q, r)
    \/ \E f \in Ferramentas : registrar_ferramenta(f)

SpecSobrepostos == Init /\ [][NextSobrepostos]_vars

----------------------------------------------------------------------------
(* What the caller observed, for the properties below *)

UltimaMensagem == _historico[Len(_historico)]

\* the tool a turn called raised
Falhou(uso) == ~Invocar([nome |-> uso.nome, func |-> uso.func], uso.arg).ok

ErroDe(uso) == Invocar([nome |-> uso.nome, func |-> uso.func], uso.arg).err

TemCalcular(texto) == Contem("calcular", lower(texto))

TemPesquisar(texto) == Contem("pesquisar", lower(texto))

\* the text starts with the prefix
ComecaCom(prefixo, texto) ==
    Len(texto) >= Len(prefixo) /\ SubSeq(texto, 1, Len(prefixo)) = prefixo

ContextoDeCalculo(contexto) ==
    \/ ComecaCom("\n[SISTEMA] O usuario pediu um calculo. Resultado da ferramenta: ",
                 contexto)
    \/ ComecaCom("\n[SISTEMA] Erro ao calcular: ", contexto)

----------------------------------------------------------------------------
(* C1: whenever carregar_conversa fails on a record (a role that is no Role, a
   timestamp that is no ISO date), also on a record that follows valid ones, the
   history after the call is the history before it. *)
C1_ImportacaoAtomica ==
    (ult.op = "carregar_conversa" /\ ult.res = "raise" /\ ult.val = "ValueError")
        => _historico = ult.antes

(* C2: in every state reached after construction by turns, registrations, saves and
   loads, successful or failing, the history holds at least one message. *)
C2_HistoricoNaoVazio == Len(_historico) >= 1

(* C3: under sequential use, when processar_mensagem returns a text the history is
   the history before the call, then a user message holding the input, then an
   assistant message holding the returned text: exactly two messages longer. *)
C3_TurnoAcrescentaDois ==
    (ult.op = "processar_mensagem" /\ ult.res = "ok") =>
        LET n == Len(ult.antes)
        IN  /\ Len(_historico) = n + 2
            /\ SubSeq(_historico, 1, n) = ult.antes
            /\ _historico[n + 1].role = "USER"
            /\ _historico[n + 1].content = ult.arg
            /\ _historico[n + 2].role = "ASSISTANT"
            /\ _historico[n + 2].content = ult.val

\* a turn that called the search tool with success has returned
C3_Testemunha ==
    /\ ult.op = "processar_mensagem" /\ ult.res = "ok"
    /\ Len(ult.usadas) = 1 /\ ult.usadas[1].nome = "buscar"
    /\ Len(_historico) = 3

(* C4: whenever the backend call of a turn fails, processar_mensagem does not raise:
   it appends an assistant message whose content is the error text made from the
   failure, and returns that text, as a turn that succeeds does. *)
C4_FalhaDoBackendViraMensagem ==
    (ult.op = "processar_mensagem" /\ ult.backend = "falha") =>
        /\ ult.res = "ok"
        /\ \E r \in RespostasBackend :
               ~r.ok /\ ult.val = "Erro ao contatar a IA: " \o r.erro
        /\ Len(_historico) = Len(ult.antes) + 2
        /\ UltimaMensagem.role = "ASSISTANT"
        /\ UltimaMensagem.content = ult.val

\* the backend failed in a turn
C4_Testemunha ==
    /\ ult.op = "processar_mensagem" /\ ult.backend = "falha"
    /\ ult.val = "Erro ao contatar a IA: timeout"

(* C5: an exception of the tool called in the "calcular" branch does not end the
   turn: the context is the system-annotated text embedding the error, the backend
   is called with a prompt containing it, and an assistant message is appended. *)
C5_FalhaDoCalculoContinua ==
    (/\ ult.op = "processar_mensagem"
     /\ Len(ult.usadas) >= 1
     /\ ult.usadas[1].nome = "calcular"
     /\ Falhou(ult.usadas[1])) =>
        /\ ult.res \in {"await", "ok"}
        /\ ult.contexto = "\n[SISTEMA] Erro ao calcular: " \o ErroDe(ult.usadas[1])
        /\ Contem(ult.contexto, ult.prompt)
        /\ ult.backend # "nao"
        /\ ult.res = "await" => \E q \in pendentes : q.prompt = ult.prompt
        /\ ult.res = "ok" =>
               /\ Len(_historico) = Len(ult.antes) + 2
               /\ UltimaMensagem.role = "ASSISTANT"

\* a turn whose calculate tool raised has returned
C5_Testemunha ==
    /\ ult.op = "processar_mensagem" /\ ult.res = "ok"
    /\ Len(ult.usadas) = 1
    /\ ult.usadas[1].nome = "calcular" /\ Falhou(ult.usadas[1])

(* C6: an exception of the tool called in the "pesquisar" branch is not caught in
   the turn: it leaves processar_mensagem, and the backend is not called. *)
C6_FalhaDaBuscaPropaga ==
    (/\ ult.op = "processar_mensagem"
     /\ Len(ult.usadas) >= 1
     /\ ult.usadas[Len(ult.usadas)].nome = "buscar"
     /\ Falhou(ult.usadas[Len(ult.usadas)])) =>
        /\ ult.res = "raise"
        /\ ult.val = ErroDe(ult.usadas[Len(ult.usadas)])
        /\ ult.backend = "nao"
        /\ ult.prompt = ""
        /\ pendentes = {}

\* a turn whose search tool raised
C6_Testemunha ==
    /\ ult.op = "processar_mensagem" /\ ult.res = "raise"
    /\ Len(ult.usadas) = 1
    /\ ult.usadas[1].nome = "buscar" /\ Falhou(ult.usadas[1])

(* C7, as stated: when the text has both trigger words and both tools are
   registered, only the calculate tool is called and the context is the "calcular"
   branch's; the search tool is not called. *)
C7_Original ==
    (/\ ult.op = "processar_mensagem"
     /\ TemCalcular(ult.arg) /\ TemPesquisar(ult.arg)
     /\ {"calcular", "buscar"} \subseteq DOMAIN _ferramentas) =>
        /\ Len(ult.usadas) = 1
        /\ ult.usadas[1].nome = "calcular"
        /\ ContextoDeCalculo(ult.contexto)

(* C7, amended: when tool use is enabled for the turn (usar_ferramentas, true by
   default), the text has both trigger words and both tools are registered, only
   the calculate tool is called and the context is the "calcular" branch's; the
   search tool is not called. *)
C7_SoOCalculo ==
    (/\ ult.op = "processar_mensagem"
     /\ ult.usar
     /\ TemCalcular(ult.arg) /\ TemPesquisar(ult.arg)
     /\ {"calcular", "buscar"} \subseteq DOMAIN _ferramentas) =>
        /\ Len(ult.usadas) = 1
        /\ ult.usadas[1].nome = "calcular"
        /\ ContextoDeCalculo(ult.contexto)

\* a turn with both trigger words and both tools, tool use enabled, has returned
C7_Testemunha ==
    /\ ult.op = "processar_mensagem" /\ ult.res = "ok" /\ ult.usar
    /\ TemCalcular(ult.arg) /\ TemPesquisar(ult.arg)
    /\ {"calcular", "buscar"} \subseteq DOMAIN _ferramentas
    /\ _ferramentas["buscar"].func = "ferramenta_buscar"
    /\ ult.usadas[1].nome = "calcular"

(* C8: if the text has the search trigger and a search tool is registered, and rule 1
   does not apply (the text has no compute trigger, or it has one but no calculate
   tool is registered), the search tool is called. Stated for turns with tool use
   enabled. *)
C8_BuscaQuandoRegra1NaoCasa ==
    (/\ ult.op = "processar_mensagem"
     /\ ult.usar
     /\ TemPesquisar(ult.arg)
     /\ "buscar" \in DOMAIN _ferramentas
     /\ ~(TemCalcular(ult.arg) /\ "calcular" \in DOMAIN _ferramentas)) =>
        /\ Len(ult.usadas) = 1
        /\ ult.usadas[1].nome = "buscar"

(* C9: a list got from the historico property before a turn or a load is not changed
   by it: it has the length and the messages it had when it was got, while the
   agent's own history has changed. *)
C9_SnapshotIntacto ==
    (snapshot.tem /\ ult.op \in {"processar_mensagem", "carregar_conversa"}) =>
        /\ Len(ItensDoSnapshot) = Len(snapshot.visto)
        /\ ItensDoSnapshot = snapshot.visto

\* the list was got right before a turn that has returned, and the history moved on
C9_Testemunha ==
    /\ snapshot.tem
    /\ ult.op = "processar_mensagem" /\ ult.res = "ok"
    /\ ult.antes = snapshot.visto
    /\ _historico # snapshot.visto

(* C10: loading the file that salvar_conversa wrote from a history h succeeds and
   gives a history of the same length with, position by position, the role, content
   and timestamp of h. *)
C10_IdaEVolta ==
    (ult.op = "carregar_conversa" /\ ult.arg = ArquivoDaConversa /\ arquivo.existe) =>
        /\ ult.res = "ok"
        /\ Len(_historico) = Len(arquivo.de)
        /\ \A i \in 1..Len(arquivo.de) :
               /\ _historico[i].role = arquivo.de[i].role
               /\ _historico[i].content = arquivo.de[i].content
               /\ _historico[i].timestamp = arquivo.de[i].timestamp

\* a history with a fractional timestamp was saved, replaced, and loaded back
C10_Testemunha ==
    /\ ult.op = "carregar_conversa" /\ ult.arg = ArquivoDaConversa /\ ult.res = "ok"
    /\ Len(_historico) = 3
    /\ _historico[2].timestamp.micro # 0
    /\ ult.antes # _historico

RECURSIVE LinhasAte(_, _)
\* the "<role>: <content>" lines of the first n messages, each ended by a newline
LinhasAte(msgs, n) ==
    IF n = 0 THEN ""
    ELSE LinhasAte(msgs, n - 1)
             \o RoleValue(msgs[n].role) \o ": " \o msgs[n].content \o "\n"

(* C11: the prompt a turn sends to the backend is, in insertion order, one
   "<role>: <content>" line for each message the history held before the turn, then
   the line of the turn's own user message, then the tool context (empty if no tool
   gave one), then the cue "\nassistant:"; under every branch of the tool logic. *)
C11_PromptNaOrdem ==
    (ult.op = "processar_mensagem" /\ ult.backend # "nao") =>
        ult.prompt = LinhasAte(ult.antes, Len(ult.antes))
                         \o "user: " \o ult.arg \o "\n"
                         \o ult.contexto
                         \o "\nassistant:"

\* a prompt was sent with two messages before the turn's own and a tool context
C11_Testemunha ==
    /\ ult.op = "processar_mensagem" /\ ult.res = "ok"
    /\ Len(ult.antes) = 2
    /\ ult.contexto # ""
    /\ Len(ult.usadas) = 1 /\ ult.usadas[1].nome = "calcular"

(* C12: on a freshly constructed agent with the calculate tool registered, the turn
   "calcule 10+2+5" calls the calculate tool with the whole message, the prompt sent
   to the backend holds the tool's result 17, and when the turn has returned the
   history is exactly system, user, assistant: the tool context is not in it. *)
C12_PedidoDeCalculo ==
    (/\ ult.op = "processar_mensagem"
     /\ ult.arg = "calcule 10+2+5"
     /\ ult.usar
     /\ Len(ult.antes) = 1
     /\ "calcular" \in DOMAIN _ferramentas
     /\ _ferramentas["calcular"].func = "ferramenta_calcular") =>
        /\ Len(ult.usadas) = 1
        /\ ult.usadas[1].nome = "calcular"
        /\ ult.usadas[1].arg = ult.arg
        /\ Contem(ferramenta_calcular(ult.arg), ult.contexto)
        /\ Contem(ult.contexto, ult.prompt)
        /\ ult.res = "ok" =>
               /\ Len(_historico) = 3
               /\ _historico[1].role = "SYSTEM"
               /\ _historico[2].role = "USER"
               /\ _historico[3].role = "ASSISTANT"
               /\ \A i \in 1..3 : ~Contem("[SISTEMA]", _historico[i].content)

(* C13, as stated: when the text has a trigger word whose tool is not registered,
   no tool is called and the tool context is empty. *)
C13_Original ==
    (/\ ult.op = "processar_mensagem"
     /\ \/ TemCalcular(ult.arg) /\ "calcular" \notin DOMAIN _ferramentas
        \/ TemPesquisar(ult.arg) /\ "buscar" \notin DOMAIN _ferramentas) =>
        /\ ult.usadas = << >>
        /\ ult.contexto = ""

\* the text has a trigger word, and no trigger word it has names a registered tool
FaltaNoRegistro(texto) ==
    /\ TemCalcular(texto) \/ TemPesquisar(texto)
    /\ TemCalcular(texto) => "calcular" \notin DOMAIN _ferramentas
    /\ TemPesquisar(texto) => "buscar" \notin DOMAIN _ferramentas

(* C13, amended: when the text has a trigger word and the tool of every trigger word
   it has is not registered (so also when no tool is registered), no tool is called,
   the tool context is empty, the backend is called with the plain prompt (history
   lines and cue only), and the turn returns with an assistant message appended. *)
C13_FaltaNoRegistro ==
    (ult.op = "processar_mensagem" /\ FaltaNoRegistro(ult.arg)) =>
        /\ ult.usadas = << >>
        /\ ult.contexto = ""
        /\ ult.res \in {"await", "ok"}
        /\ ult.backend # "nao"
        /\ ult.prompt = LinhasAte(ult.antes, Len(ult.antes))
                            \o "user: " \o ult.arg \o "\n" \o "\nassistant:"
        /\ ult.res = "await" => \E q \in pendentes : q.prompt = ult.prompt
        /\ ult.res = "ok" =>
               /\ Len(_historico) = Len(ult.antes) + 2
               /\ UltimaMensagem.role = "ASSISTANT"
               /\ UltimaMensagem.content = ult.val

\* a turn with the search trigger has returned on an agent with no tools
C13_Testemunha ==
    /\ ult.op = "processar_mensagem" /\ ult.res = "ok" /\ ult.usar
    /\ TemPesquisar(ult.arg) /\ ~TemCalcular(ult.arg)
    /\ _ferramentas = << >>
    /\ UltimaMensagem.role = "ASSISTANT"

\* the temperature, in tenths, the last constructor call was given
TemperaturaDada == CHOOSE t \in Temperaturas : ToString(t) = ult.arg

(* C14: a constructor call with a temperature below 0 or above 1 raises ValueError
   and leaves no agent and no history; a call with a temperature from 0 to 1, the
   endpoints included, returns an agent whose history is exactly the one system
   message greeting by name. *)
C14_TemperaturaValidada ==
    ult.op = "__init__" =>
        IF TemperaturaDada < 0 \/ TemperaturaDada > 10
        THEN /\ ult.res = "raise" /\ ult.val = "ValueError"
             /\ ~Existe
             /\ _historico = << >>
        ELSE /\ ult.res = "ok"
             /\ Existe
             /\ Len(_historico) = 1
             /\ _historico[1].role = "SYSTEM"
             /\ _historico[1].content =
                    "Voce e " \o Nome \o ", um assistente de IA util e amigavel."
             /\ _ferramentas = << >>

\* the constructor was given the endpoint 1.0 and returned an agent
C14_Testemunha ==
    /\ ult.op = "__init__" /\ ult.res = "ok"
    /\ TemperaturaDada = 10
    /\ Len(_historico) = 1

(* C15: after anything a caller does to a list the historico property returned
   (appending an item, removing one, assigning the role or the content of a message
   in it), the agent's own history has the length it had and every message in it
   has the role and the content it had. *)
C15_HistoricoForaDoAlcance ==
    ult.op = "chamador" =>
        /\ Len(_historico) = Len(ult.antes)
        /\ \A i \in 1..Len(ult.antes) :
               /\ _historico[i].role = ult.antes[i].role
               /\ _historico[i].content = ult.antes[i].content

(* C16: in every step of any interleaving of processar_mensagem calls (started,
   suspended, resumed in any order, raising or not) and registrar_ferramenta calls,
   the history before the step is a prefix of the history after it: no message is
   removed, moved, merged or changed. *)
C16_SoAcrescenta ==
    [][/\ Len(_historico') >= Len(_historico)
       /\ SubSeq(_historico', 1, Len(_historico)) = _historico]_vars

\* two overlapping turns have returned on an agent with a tool: both user messages
\* came before both assistant messages
C16_Testemunha ==
    /\ Len(_historico) = 5
    /\ _historico[2].role = "USER" /\ _historico[3].role = "USER"
    /\ _historico[4].role = "ASSISTANT" /\ _historico[5].role = "ASSISTANT"
    /\ chamadas.retornadas = 2
    /\ _ferramentas # << >>

(* C17: for every text that has the search trigger in any letter case (and no
   compute trigger), on an agent with a search tool and tool use enabled, the search
   tool is called, and its argument is the text without the trigger word, stripped
   of leading and trailing whitespace: the argument does not contain the trigger
   word in any letter case. *)
C17_ConsultaSemGatilho ==
    (/\ ult.op = "processar_mensagem"
     /\ ult.usar
     /\ TemPesquisar(ult.arg) /\ ~TemCalcular(ult.arg)
     /\ "buscar" \in DOMAIN _ferramentas) =>
        /\ Len(ult.usadas) = 1
        /\ ult.usadas[1].nome = "buscar"
        /\ ult.usadas[1].arg = strip(ult.usadas[1].arg)
        /\ ~TemPesquisar(ult.usadas[1].arg)

\* registrar_ferramenta has just returned: the name is bound to the tool it was
\* given, every other name is bound as before, and the history is as before
RegistroFeito ==
    ult.op = "registrar_ferramenta" =>
        /\ ult.res = "ok"
        /\ DOMAIN _ferramentas = DOMAIN ult.registro \cup {ult.arg}
        /\ _ferramentas[ult.arg] = [nome |-> ult.arg, func |-> ult.val]
        /\ \A n \in DOMAIN ult.registro :
               n # ult.arg => _ferramentas[n] = ult.registro[n]
        /\ _historico = ult.antes

\* every tool a turn called is the one its name is bound to
DespachoPeloRegistro ==
    ult.op = "processar_mensagem" =>
        \A k \in 1..Len(ult.usadas) :
            /\ ult.usadas[k].nome \in DOMAIN _ferramentas
            /\ _ferramentas[ult.usadas[k].nome] =
                   [nome |-> ult.usadas[k].nome, func |-> ult.usadas[k].func]

(* C18: the registry binds a name to one tool, the one registered last under it:
   registrar_ferramenta always returns, binds the name to the given tool whether or
   not the name was bound, and leaves the other bindings and the history as they
   were; bindings change in no other step; and a turn calls, for a name, the tool
   the name is bound to. *)
C18_UltimoRegistroVale ==
    /\ [](RegistroFeito /\ DespachoPeloRegistro)
    /\ [][_ferramentas' # _ferramentas => ult'.op = "registrar_ferramenta"]_vars

\* after a turn, a name bound to one tool was registered again with another tool,
\* while the other name was bound too
C18_Testemunha ==
    /\ ult.op = "registrar_ferramenta"
    /\ ult.arg \in DOMAIN ult.registro
    /\ ult.registro[ult.arg].func # ult.val
    /\ DOMAIN _ferramentas = {"calcular", "buscar"}
    /\ Len(_historico) = 3

\* the prompt of a call that saw the history antes, got the text mensagem and made
\* the tool context contexto: the lines of antes, the call's own user line, the
\* context, the cue
PromptProprio(antes, mensagem, contexto, prompt) ==
    prompt = LinhasAte(antes, Len(antes)) \o "user: " \o mensagem \o "\n"
                 \o contexto \o "\nassistant:"

\* the user message of a call that saw the history antes is where the call put it
MensagemPropria(antes, mensagem) ==
    /\ Len(_historico) > Len(antes)
    /\ SubSeq(_historico, 1, Len(antes)) = antes
    /\ _historico[Len(antes) + 1].role = "USER"
    /\ _historico[Len(antes) + 1].content = mensagem

(* C19: when processar_mensagem calls overlap (calls start while earlier ones are
   suspended at the backend call, and resume in any order), no append is lost: the
   history holds the system message, one message for each call started and one more
   for each call that returned; once no call is suspended it has grown by two
   messages for each call that returned (and by one for each that raised); the user
   message of each call is where the call appended it, before the assistant message
   the call appends when it returns; and the prompt of each call is the history the
   call found, then its own user message as the last history line. *)
C19_SobreposicaoSemPerda ==
    /\ Len(_historico) = 1 + chamadas.iniciadas + chamadas.retornadas
    /\ Cardinality(pendentes) =
           chamadas.iniciadas - chamadas.retornadas - chamadas.levantadas
    /\ Ocioso => Len(_historico) = 1 + 2 * chamadas.retornadas + chamadas.levantadas
    /\ \A q \in pendentes :
           /\ MensagemPropria(q.antes, q.mensagem)
           /\ PromptProprio(q.antes, q.mensagem, q.contexto, q.prompt)
    /\ (ult.op = "processar_mensagem" /\ ult.res = "ok") =>
           /\ MensagemPropria(ult.antes, ult.arg)
           /\ PromptProprio(ult.antes, ult.arg, ult.contexto, ult.prompt)
           /\ Len(ult.antes) + 1 < Len(_historico)
           /\ UltimaMensagem.role = "ASSISTANT"
           /\ UltimaMensagem.content = ult.val

\* two calls overlapped and both have returned, the first one last
C19_Testemunha ==
    /\ Ocioso
    /\ chamadas = [iniciadas |-> 2, retornadas |-> 2, levantadas |-> 0]
    /\ ult.op = "processar_mensagem" /\ ult.res = "ok"
    /\ Len(ult.antes) = 1
    /\ Len(_historico) = 5
    /\ _historico[3].role = "USER" /\ _historico[4].role = "ASSISTANT"

\* a turn has raised: the history is the one before the call and the user message
\* of the turn, and the backend was not called
ExcecaoDeixaOUsuario ==
    (ult.op = "processar_mensagem" /\ ult.res = "raise") =>
        /\ Len(_historico) = Len(ult.antes) + 1
        /\ SubSeq(_historico, 1, Len(ult.antes)) = ult.antes
        /\ UltimaMensagem.role = "USER"
        /\ UltimaMensagem.content = ult.arg
        /\ ult.backend = "nao"

\* a turn that found a user message at the end of the history has sent a prompt
\* with that message's line and its own user line one after the other
DuasLinhasDeUsuario ==
    (/\ ult.op = "processar_mensagem" /\ ult.backend # "nao"
     /\ ult.antes[Len(ult.antes)].role = "USER") =>
        Contem("user: " \o ult.antes[Len(ult.antes)].content \o "\n"
                   \o "user: " \o ult.arg \o "\n",
               ult.prompt)

(* C20: under sequential use, whenever processar_mensagem raises (the search tool it
   called raised), the history has grown by exactly one message, the user message of
   the turn, with no assistant message after it and no backend call; and the next
   turn that reaches the backend finds that user message at the end of the history
   and sends a prompt holding its line and the new user line one after the other. *)
C20_ExcecaoDeixaSoOUsuario ==
    /\ [](ExcecaoDeixaOUsuario /\ DuasLinhasDeUsuario)
    /\ [][(/\ ult.op = "processar_mensagem" /\ ult.res = "raise"
           /\ ult'.op = "processar_mensagem" /\ ult'.backend # "nao") =>
              /\ ult'.antes = _historico
              /\ ult'.antes[Len(ult'.antes)].content = ult.arg
              /\ Contem("user: " \o ult.arg \o "\n" \o "user: " \o ult'.arg \o "\n",
                        ult'.prompt)]_vars

\* the turn after a turn that raised has returned
C20_Testemunha ==
    /\ ult.op = "processar_mensagem" /\ ult.res = "ok"
    /\ chamadas = [iniciadas |-> 2, retornadas |-> 1, levantadas |-> 1]
    /\ Len(ult.antes) = 2
    /\ ult.antes[2].role = "USER"
    /\ Len(_historico) = 4

====
